---- MODULE Spec2Model ----
(***************************************************************************)
(* Car-wash booking lifecycle of src/app.py: the SQLite tables, the        *)
(* customer's "Create Booking" handler, and the staff dashboard's "Update  *)
(* Stage" and "Update Payment" handlers, run by independent Streamlit      *)
(* sessions that each hold their own connection to one database file.      *)
(*                                                                         *)
(* A connection opened by sqlite3.connect (default isolation level) reads  *)
(* in autocommit mode and opens a transaction at its first INSERT/UPDATE;  *)
(* the transaction holds the database's single write lock until commit.    *)
(* `db` is the committed database every session reads; `tx` is the working *)
(* copy of the session that holds the write lock.                          *)
(***************************************************************************)
EXTENDS Integers, Sequences, FiniteSets, TLC

\* ---------------------------------------------------------------- bounds
\* the number of requests (button presses) the sessions make in a run: with
\* two staff sessions, and in the longer runs of a single staff session
MaxRequests == 4
MaxRequestsSeq == 5
\* the highest stage_order the administration gives to a stage it adds
MaxStageOrder == 6

\* ------------------------------------------------------------- constants
NULL == 0                  \* Python None / SQL NULL (ids and timestamps are >= 1)
Washing == 1               \* stage ids of the seeded catalog (AUTOINCREMENT)
Drying == 2
Polishing == 3
CompletedStage == 4

Customers == {"c1"}
\* the customers of the runs in which a second customer is registered
TwoCustomers == {"c1", "c2"}
StaffUsers == {"s1", "s2"}
Sessions == TwoCustomers \cup StaffUsers
NoOne == "none"

Methods == {"Cash", "Card", "Online"}
PaymentStatuses == {"Unpaid", "Paid", "Partial", "Refunded"}
ActiveStatuses == {"Booked", "InProgress"}

\* stage_id -> stage_order as seeded by init_db
SeedStages == (Washing :> 1) @@ (Drying :> 2) @@ (Polishing :> 3) @@ (CompletedStage :> 4)
\* a catalog left in the database file by an earlier administration: init_db
\* seeds only an empty table; orders are unique and positive, not contiguous
\* and not in id order
OtherStages == (1 :> 5) @@ (2 :> 2)
Catalogs == {SeedStages, OtherStages}

\* the prices typed into "Add New Package"
PackagePrices == {300}

\* package_id -> row, as seeded by init_db
SeedPackages == << [price |-> 500, is_active |-> 1],
                   [price |-> 800, is_active |-> 1],
                   [price |-> 1200, is_active |-> 1] >>

VARIABLES stages, packages, db, tx, lock, pc, loc, requests, done, assigned

vars == << stages, packages, db, tx, lock, pc, loc, requests, done, assigned >>

\* ------------------------------------------------------------ helpers
EmptyDb == [vehicles |-> << >>, bookings |-> << >>, history |-> << >>, payments |-> << >>,
            assignments |-> << >>]
IdleLoc == [bid |-> NULL]
\* `done` records the last committed "Update Stage" call and `assigned` the
\* last "Save Assignment" call, NoCall before the first
NoCall == [by |-> NoOne]

\* the rows of booking bid in booking_stage_history, in history_id order
HistoryOf(d, bid) == SelectSeq(d.history, LAMBDA r : r.booking_id = bid)

\* datetime.now().strftime(...): a non-null timestamp that never decreases;
\* the clock has ticked once for every request started so far
now_str == requests + 1

\* the tables as session s sees them: its own uncommitted writes included
View(s) == IF lock = s THEN tx ELSE db

\* what the other sessions can read after s ran a statement without commit
AfterStatementAutocommit(committed, working) == working
AfterStatement(committed, working) == committed

\* SELECT stage_id FROM service_stages ORDER BY stage_order LIMIT 1
FirstStageNone(stg) == NULL
FirstStageById(stg) == CHOOSE s \in DOMAIN stg : \A t \in DOMAIN stg : s <= t
FirstStage(stg) == CHOOSE s \in DOMAIN stg : \A t \in DOMAIN stg : stg[s] <= stg[t]

\* SELECT MAX(stage_order) FROM service_stages
MaxOrder(stg) == CHOOSE m \in {stg[s] : s \in DOMAIN stg} : \A t \in DOMAIN stg : stg[t] <= m

\* new_booking_status of "Update Stage"
NewBookingStatusNever(stage_order, max_order) == "InProgress"
NewBookingStatusBooked(stage_order, max_order) ==
  IF stage_order = max_order THEN "Completed" ELSE "Booked"
NewBookingStatusCancelled(stage_order, max_order) ==
  IF stage_order = max_order THEN "Completed" ELSE "Cancelled"
NewBookingStatus(stage_order, max_order) ==
  IF stage_order = max_order THEN "Completed" ELSE "InProgress"

\* SELECT vehicle_id FROM vehicles WHERE customer_id=?
VehiclesOfAnyone(d, c) == DOMAIN d.vehicles
VehiclesOf(d, c) == {v \in DOMAIN d.vehicles : d.vehicles[v].customer_id = c}

\* SELECT package_id FROM packages WHERE is_active=1
ActivePackages == {p \in DOMAIN packages : packages[p].is_active = 1}

\* SELECT booking_id FROM bookings WHERE status IN ('Booked','InProgress')
ActiveBookingsByOrder(d) ==
  {b \in DOMAIN d.bookings : stages[d.bookings[b].current_stage_id] # MaxOrder(stages)}
ActiveBookings(d) == {b \in DOMAIN d.bookings : d.bookings[b].status \in ActiveStatuses}

\* SELECT ... FROM payments WHERE booking_id=?  (fetchone)
PaymentRows(d, bid) == {i \in DOMAIN d.payments : d.payments[i].booking_id = bid}
\* (the result is << >> for None, << row >> for a row)
PaymentLookup(d, bid) ==
  IF PaymentRows(d, bid) = {} THEN << >>
  ELSE << d.payments[CHOOSE i \in PaymentRows(d, bid) : \A j \in PaymentRows(d, bid) : i <= j] >>

\* UPDATE booking_stage_history SET end_time=? WHERE booking_id=? AND stage_id=? AND end_time IS NULL
EndPreviousNothing(hist, bid, stage, t) == hist
EndPreviousAgain(hist, bid, stage, t) ==
  [i \in DOMAIN hist |->
     IF hist[i].booking_id = bid /\ hist[i].stage_id = stage
     THEN [hist[i] EXCEPT !.end_time = t]
     ELSE hist[i]]
EndPrevious(hist, bid, stage, t) ==
  [i \in DOMAIN hist |->
     IF hist[i].booking_id = bid /\ hist[i].stage_id = stage /\ hist[i].end_time = NULL
     THEN [hist[i] EXCEPT !.end_time = t]
     ELSE hist[i]]

\* paid_time = now_str() if new_status == "Paid" else None
PaidTimeKept(new_status, old_paid_at, t) == IF new_status = "Paid" THEN t ELSE old_paid_at
PaidTime(new_status, old_paid_at, t) == IF new_status = "Paid" THEN t ELSE NULL

\* UPDATE payments SET method=?, payment_status=?, paid_at=? WHERE booking_id=?
UpdatePaymentRowEveryBooking(pays, bsel, new_method, new_status, paid_time) ==
  [i \in DOMAIN pays |->
     [pays[i] EXCEPT !.method = new_method,
                     !.payment_status = new_status,
                     !.paid_at = paid_time]]
UpdatePaymentRow(pays, bsel, new_method, new_status, paid_time) ==
  [i \in DOMAIN pays |->
     IF pays[i].booking_id = bsel
     THEN [pays[i] EXCEPT !.method = new_method,
                          !.payment_status = new_status,
                          !.paid_at = paid_time]
     ELSE pays[i]]

\* "If completed, mark payment as Paid automatically? ... Keep as-is": pass
OnCompletedMarkPaid(pays, bid, t) ==
  [i \in DOMAIN pays |->
     IF pays[i].booking_id = bid
     THEN [pays[i] EXCEPT !.payment_status = "Paid", !.paid_at = t]
     ELSE pays[i]]
OnCompleted(pays, bid, t) == pays

\* booking bid and its history as the database d holds them (kept per call
\* to compare an interleaved run with the serial ones)
Seen(d, bid) == [booking |-> d.bookings[bid], history |-> HistoryOf(d, bid)]

\* INSERT INTO payments(booking_id, amount, method, payment_status, paid_at);
\* float(pkg_price) keeps the value of the seeded prices
InitialPaymentPaid(booking_id, pkg_price) ==
  [booking_id |-> booking_id, amount |-> pkg_price, method |-> "Cash",
   payment_status |-> "Paid", paid_at |-> NULL]
InitialPayment(booking_id, pkg_price) ==
  [booking_id |-> booking_id, amount |-> pkg_price, method |-> "Cash",
   payment_status |-> "Unpaid", paid_at |-> NULL]

\* INSERT INTO booking_stage_history(booking_id, stage_id, start_time, end_time, updated_by_staff_id)
NewHistoryRowClosed(bid, new_stage_id, t, staff_id) ==
  [booking_id |-> bid, stage_id |-> new_stage_id, start_time |-> t, end_time |-> t,
   updated_by_staff_id |-> staff_id]
NewHistoryRow(bid, new_stage_id, t, staff_id) ==
  [booking_id |-> bid, stage_id |-> new_stage_id, start_time |-> t, end_time |-> NULL,
   updated_by_staff_id |-> staff_id]

\* the multiselect "Assign Staff": the chosen staff in the order chosen
Selections ==
  {<< >>} \cup {<< x >> : x \in StaffUsers}
          \cup {sel \in StaffUsers \X StaffUsers : sel[1] # sel[2]}

\* the rows of booking_staff_assignment with the key (bid, sid)
AssignmentRows(d, bid, sid) ==
  {i \in DOMAIN d.assignments :
     d.assignments[i].booking_id = bid /\ d.assignments[i].staff_id = sid}

\* INSERT INTO booking_staff_assignment ... except sqlite3.IntegrityError: pass
\* (PRIMARY KEY(booking_id, staff_id))
InsertAssignmentAlways(rows, bid, sid, t) ==
  Append(rows, [booking_id |-> bid, staff_id |-> sid, assigned_at |-> t])
InsertAssignment(rows, bid, sid, t) ==
  IF \E i \in DOMAIN rows : rows[i].booking_id = bid /\ rows[i].staff_id = sid
  THEN rows
  ELSE Append(rows, [booking_id |-> bid, staff_id |-> sid, assigned_at |-> t])

\* for label in chosen_staff: one INSERT each
RECURSIVE InsertAssignments(_, _, _, _)
InsertAssignments(rows, bid, chosen, t) ==
  IF chosen = << >> THEN rows
  ELSE InsertAssignments(InsertAssignment(rows, bid, Head(chosen), t), bid, Tail(chosen), t)

\* ------------------------------------------------------------ transactions
\* session s runs INSERT/UPDATE statements whose result is the working copy w
\* and does not commit yet: it needs the write lock (another writer's open
\* transaction makes it wait) and keeps it
Statement(s, w) ==
  /\ lock \in {NoOne, s}
  /\ lock' = s
  /\ tx' = w
  /\ db' = AfterStatement(db, w)

\* session s runs statements whose result is the working copy w, then
\* conn.commit()
Commit(s, w) ==
  /\ lock \in {NoOne, s}
  /\ lock' = NoOne
  /\ tx' = EmptyDb
  /\ db' = w

Init ==
  /\ stages \in Catalogs
  /\ packages = SeedPackages
  /\ db = EmptyDb
  /\ tx = EmptyDb
  /\ lock = NoOne
  /\ pc = [s \in Sessions |-> "idle"]
  /\ loc = [s \in Sessions |-> IdleLoc]
  /\ requests = 0
  /\ done = NoCall
  /\ assigned = NoCall

\* a session presses a button: one more request is being served
Request == requests' = requests + 1

\* ------------------------------------------------------------ customer
\* "Save Vehicle": one INSERT and its commit
SaveVehicle(c) ==
  /\ pc[c] = "idle"
  /\ Request
  /\ Commit(c, [View(c) EXCEPT !.vehicles = Append(@, [customer_id |-> c])])
  /\ UNCHANGED << stages, packages, pc, loc, done, assigned >>

\* "Create Booking": the first stage, INSERT INTO bookings, last_insert_rowid()
CreateBooking(c, vehicle_id, package_id) ==
  /\ pc[c] = "idle"
  /\ vehicle_id \in VehiclesOf(View(c), c)
  /\ package_id \in ActivePackages
  /\ DOMAIN stages # {}
  /\ Request
  /\ LET first_stage_id == FirstStage(stages)
         row == [customer_id |-> c, vehicle_id |-> vehicle_id, package_id |-> package_id,
                 booking_datetime |-> now_str, status |-> "Booked",
                 current_stage_id |-> first_stage_id]
         w == [View(c) EXCEPT !.bookings = Append(@, row)]
     IN /\ Statement(c, w)
        /\ loc' = [loc EXCEPT ![c] = [bid |-> Len(w.bookings), package_id |-> package_id]]
  /\ pc' = [pc EXCEPT ![c] = "booked"]
  /\ UNCHANGED << stages, packages, done, assigned >>

\* "Create Booking": SELECT price, INSERT INTO payments, conn.commit()
InsertPayment(c) ==
  /\ pc[c] = "booked"
  /\ LET pkg_price == packages[loc[c].package_id].price
         row == InitialPayment(loc[c].bid, pkg_price)
     IN /\ PaymentRows(View(c), loc[c].bid) = {}      \* booking_id UNIQUE
        /\ Commit(c, [View(c) EXCEPT !.payments = Append(@, row)])
  /\ pc' = [pc EXCEPT ![c] = "idle"]
  /\ loc' = [loc EXCEPT ![c] = IdleLoc]
  /\ UNCHANGED << stages, packages, requests, done, assigned >>

\* ------------------------------------------------------------ staff
\* "Update Stages" tab of the run in which the button is pressed: the list of
\* active bookings, the selected booking and its current stage
StaffView(s, bid) ==
  /\ pc[s] = "idle"
  /\ bid \in ActiveBookings(View(s))
  /\ Request
  /\ loc' = [loc EXCEPT ![s] = [bid |-> bid,
                                current_stage_id |-> View(s).bookings[bid].current_stage_id,
                                seen |-> Seen(View(s), bid)]]
  /\ pc' = [pc EXCEPT ![s] = "viewed"]
  /\ UNCHANGED << stages, packages, db, tx, lock, done, assigned >>

\* "Update Stage" pressed: end the previous history row if requested, derive
\* the booking status from the order of the chosen stage, UPDATE bookings
UpdateStage(s, new_stage_id, end_prev) ==
  /\ pc[s] = "viewed"
  /\ new_stage_id \in DOMAIN stages
  /\ LET bid == loc[s].bid
         current_stage_id == loc[s].current_stage_id
         w1 == IF end_prev /\ current_stage_id # NULL
               THEN [View(s) EXCEPT !.history = EndPrevious(@, bid, current_stage_id, now_str)]
               ELSE View(s)
         stage_order == stages[new_stage_id]
         max_order == MaxOrder(stages)
         new_booking_status == NewBookingStatus(stage_order, max_order)
         w2 == [w1 EXCEPT !.bookings[bid].current_stage_id = new_stage_id,
                          !.bookings[bid].status = new_booking_status]
     IN /\ Statement(s, w2)
        /\ loc' = [loc EXCEPT ![s] = [bid |-> bid,
                                      current_stage_id |-> current_stage_id,
                                      seen |-> loc[s].seen,
                                      new_stage_id |-> new_stage_id,
                                      end_prev |-> end_prev,
                                      new_booking_status |-> new_booking_status]]
  /\ pc' = [pc EXCEPT ![s] = "updated"]
  /\ UNCHANGED << stages, packages, requests, done, assigned >>

\* "Update Stage": INSERT INTO booking_stage_history, the "if completed"
\* branch, conn.commit()
AddHistoryRow(s) ==
  /\ pc[s] = "updated"
  /\ LET row == NewHistoryRow(loc[s].bid, loc[s].new_stage_id, now_str, s)
         w == [View(s) EXCEPT !.history = Append(@, row)]
     IN Commit(s, IF loc[s].new_booking_status = "Completed"
                  THEN [w EXCEPT !.payments = OnCompleted(@, loc[s].bid, now_str)]
                  ELSE w)
  /\ pc' = [pc EXCEPT ![s] = "idle"]
  /\ loc' = [loc EXCEPT ![s] = IdleLoc]
  /\ done' = [by |-> s, bid |-> loc[s].bid, new_stage_id |-> loc[s].new_stage_id,
              end_prev |-> loc[s].end_prev, seen |-> loc[s].seen]
  /\ UNCHANGED << stages, packages, requests, assigned >>

\* "Update Payment": the payment row of the selected booking is looked up,
\* then one UPDATE and its commit
UpdatePayment(s, bsel, new_method, new_status) ==
  /\ pc[s] = "idle"
  /\ bsel \in DOMAIN View(s).bookings
  /\ PaymentLookup(View(s), bsel) # << >>
  /\ Request
  /\ LET paid_time == PaidTime(new_status, PaymentLookup(View(s), bsel)[1].paid_at, now_str)
     IN Commit(s, [View(s) EXCEPT !.payments =
                     UpdatePaymentRow(@, bsel, new_method, new_status, paid_time)])
  /\ UNCHANGED << stages, packages, pc, loc, done, assigned >>

\* "Save Assignment": one INSERT per chosen staff member, duplicates passed
\* over, then conn.commit()
SaveAssignment(s, bsel, chosen_staff) ==
  /\ pc[s] = "idle"
  /\ bsel \in DOMAIN View(s).bookings
  /\ Request
  /\ Commit(s, [View(s) EXCEPT
                  !.assignments = InsertAssignments(@, bsel, chosen_staff, now_str)])
  /\ assigned' = [by |-> s, bid |-> bsel, chosen |-> chosen_staff,
                  before |-> View(s).assignments, request |-> requests']
  /\ UNCHANGED << stages, packages, pc, loc, done >>

\* "Create Package": one INSERT and its commit
CreatePackage(s, price, active) ==
  /\ pc[s] = "idle"
  /\ lock = NoOne
  /\ Request
  /\ packages' = Append(packages, [price |-> price, is_active |-> active])
  /\ UNCHANGED << stages, db, tx, lock, pc, loc, done, assigned >>

\* the requests of the customers `customers` and of the staff sessions `staff`; a new
\* request starts only while fewer than `budget` were made
NextOf(customers, staff, budget) ==
  \/ \E c \in customers : requests < budget /\ SaveVehicle(c)
  \/ \E c \in customers : \E v \in DOMAIN db.vehicles : \E p \in DOMAIN packages :
        requests < budget /\ CreateBooking(c, v, p)
  \/ \E c \in customers : InsertPayment(c)
  \/ \E s \in staff : \E b \in DOMAIN db.bookings : requests < budget /\ StaffView(s, b)
  \/ \E s \in staff : \E n \in DOMAIN stages : \E e \in BOOLEAN : UpdateStage(s, n, e)
  \/ \E s \in staff : AddHistoryRow(s)
  \/ \E s \in staff : \E b \in DOMAIN db.bookings : \E m \in Methods : \E st \in PaymentStatuses :
        requests < budget /\ UpdatePayment(s, b, m, st)

\* the "Save Assignment" requests of the staff sessions `staff`
NextAssign(staff, budget) ==
  \E s \in staff : \E b \in DOMAIN db.bookings : \E ch \in Selections :
    requests < budget /\ SaveAssignment(s, b, ch)

NextFor(staff, budget) == NextOf(Customers, staff, budget) \/ NextAssign(staff, budget)

Next == NextFor(StaffUsers, MaxRequests)

Spec == Init /\ [][Next]_vars

\* one staff session only: no two "Update Stage" calls overlap; the longer
\* runs of the stage and payment requests, the assignment registry left as it is
NextSeq == NextOf(Customers, {"s1"}, MaxRequestsSeq)

SpecSeq == Init /\ [][NextSeq]_vars

\* ------------------------------------------------------------ administration
\* the administration extends the catalog by a stage that comes after every
\* existing one: a row of service_stages with the next stage_id and a new
\* stage_order, inserted and committed outside the application
AddStage(stage_order) ==
  /\ lock = NoOne
  /\ stage_order > MaxOrder(stages)
  /\ stages' = Append(stages, stage_order)
  /\ UNCHANGED << packages, db, tx, lock, pc, loc, requests, done, assigned >>

\* one staff session, and the administration extending the catalog
NextAdmin ==
  \/ NextFor({"s1"}, MaxRequests)
  \/ \E o \in 1..MaxStageOrder : AddStage(o)

SpecAdmin == Init /\ [][NextAdmin]_vars

\* two customers, and one staff session that also creates packages
NextCust ==
  \/ NextOf(TwoCustomers, {"s1"}, MaxRequests)
  \/ NextAssign({"s1"}, MaxRequests)
  \/ \E pr \in PackagePrices : \E act \in {0, 1} :
        requests < MaxRequests /\ CreatePackage("s1", pr, act)

SpecCust == Init /\ [][NextCust]_vars

\* ------------------------------------------------------------ properties
\* the step on which session s commits its "Update Stage" call
Advanced(s) == pc[s] = "updated" /\ pc'[s] = "idle"
\* the step on which session c commits its "Create Booking" call
Created(c) == pc[c] = "booked" /\ pc'[c] = "idle"

OpenRows(d, bid) ==
  {i \in DOMAIN d.history : d.history[i].booking_id = bid /\ d.history[i].end_time = NULL}
HasMaxOrder(n) == \A t \in DOMAIN stages : stages[t] <= stages[n]
HasMinOrder(n) == \A t \in DOMAIN stages : stages[n] <= stages[t]

\* C1: an advanceStage to stage n on a Booked or InProgress booking sets the
\* booking's current stage to n and its status to Completed if n has the
\* maximum order among the existing stages and to InProgress otherwise,
\* whatever the previous stage was.
C1_OrderProperty ==
  [][\A s \in StaffUsers :
       (Advanced(s) /\ db.bookings[loc[s].bid].status \in ActiveStatuses) =>
         /\ db'.bookings[loc[s].bid].current_stage_id = loc[s].new_stage_id
         /\ db'.bookings[loc[s].bid].status =
              IF HasMaxOrder(loc[s].new_stage_id) THEN "Completed" ELSE "InProgress"]_vars

\* a booking that moved backward (to a stage of lower order than that of its
\* previous history row) and is InProgress
C1_Witness ==
  \E b \in DOMAIN db.bookings :
    LET h == HistoryOf(db, b)
    IN /\ Len(h) >= 2
       /\ stages[h[Len(h)].stage_id] < stages[h[Len(h) - 1].stage_id]
       /\ db.bookings[b].current_stage_id = h[Len(h)].stage_id
       /\ db.bookings[b].status = "InProgress"

\* C2: once a booking's status is Completed, no step changes the booking or
\* its history (an advanceStage on it is rejected), in every interleaving of
\* the staff sessions' requests.
C2_CompletedIsFinal ==
  [][\A b \in DOMAIN db.bookings :
       db.bookings[b].status = "Completed" =>
         /\ db'.bookings[b] = db.bookings[b]
         /\ HistoryOf(db', b) = HistoryOf(db, b)]_vars

\* C3 as claimed: right after any advanceStage with closePrevious=true the
\* booking has at most one history entry with null end_time.
C3_AtMostOneOpen ==
  [][\A s \in StaffUsers :
       (Advanced(s) /\ loc[s].end_prev) =>
         Cardinality(OpenRows(db', loc[s].bid)) <= 1]_vars

\* C3 as amended: right after an advanceStage with closePrevious=true the
\* booking has at most one history entry with null end_time, provided every
\* entry of the booking that was open when the call wrote was an entry for
\* the stage the call read as the booking's current stage.
C3_AtMostOneOpenAfterClosing ==
  [][\A s \in StaffUsers :
       (/\ Advanced(s)
        /\ loc[s].end_prev
        /\ \A i \in OpenRows(db, loc[s].bid) :
             db.history[i].stage_id = loc[s].current_stage_id) =>
         Cardinality(OpenRows(db', loc[s].bid)) <= 1]_vars

\* a booking whose earlier entry was closed by an advance and whose only open
\* entry is the latest one
C3_Witness ==
  \E b \in DOMAIN db.bookings :
    LET h == HistoryOf(db, b)
    IN /\ Len(h) >= 2
       /\ h[1].end_time # NULL
       /\ h[Len(h)].end_time = NULL
       /\ Cardinality(OpenRows(db, b)) = 1

\* C4: in every state the sessions can read, a booking's stage and status
\* and its history rows go together: a booking without history rows is still
\* Booked, and a booking with history rows has left Booked and its current
\* stage is the stage of its highest-identifier history row.
C4_AdvanceIsAtomic ==
  \A b \in DOMAIN db.bookings :
    LET h == HistoryOf(db, b)
    IN /\ h = << >> => db.bookings[b].status = "Booked"
       /\ h # << >> => /\ db.bookings[b].status # "Booked"
                       /\ db.bookings[b].current_stage_id = h[Len(h)].stage_id

\* a session has updated a booking that already has history and has not yet
\* inserted the new history row: the readers still see the old stage
C4_Witness ==
  \E s \in StaffUsers :
    /\ pc[s] = "updated"
    /\ lock = s
    /\ HistoryOf(db, loc[s].bid) # << >>
    /\ tx.bookings[loc[s].bid].current_stage_id # db.bookings[loc[s].bid].current_stage_id
    /\ HistoryOf(tx, loc[s].bid) = HistoryOf(db, loc[s].bid)

\* advanceStage run alone on the booking and history `seen`: rejected on a
\* booking that is not Booked or InProgress, else steps 2 to 5
Serial(seen, call) ==
  IF seen.booking.status \notin ActiveStatuses THEN seen
  ELSE [booking |-> [seen.booking EXCEPT
                       !.current_stage_id = call.new_stage_id,
                       !.status = NewBookingStatus(stages[call.new_stage_id], MaxOrder(stages))],
        history |-> Append(IF call.end_prev /\ seen.booking.current_stage_id # NULL
                           THEN EndPrevious(seen.history, call.bid,
                                            seen.booking.current_stage_id, now_str)
                           ELSE seen.history,
                           NewHistoryRow(call.bid, call.new_stage_id, now_str, call.by))]

\* a booking and its history without the values of the timestamps: of each
\* history entry its stage, its staff and whether it is open
Untimed(seen) ==
  [booking |-> seen.booking,
   history |-> [i \in DOMAIN seen.history |->
                  [stage_id |-> seen.history[i].stage_id,
                   updated_by_staff_id |-> seen.history[i].updated_by_staff_id,
                   open |-> seen.history[i].end_time = NULL]]]

\* C5: two advanceStage calls on the same booking by two staff sessions that
\* both read the booking before either wrote leave the booking and its
\* history as running the two calls one after the other, in one of the two
\* orders, would.
C5_Serializable ==
  [][\A s \in StaffUsers :
       (/\ Advanced(s)
        /\ done.by \notin {NoOne, s}
        /\ done.bid = loc[s].bid
        /\ done.seen = loc[s].seen
        /\ Untimed(Seen(db, loc[s].bid)) = Untimed(Serial(done.seen, done))) =>
         LET mine == [by |-> s, bid |-> loc[s].bid, new_stage_id |-> loc[s].new_stage_id,
                      end_prev |-> loc[s].end_prev]
         IN Untimed(Seen(db', loc[s].bid)) \in
              { Untimed(Serial(Serial(done.seen, done), mine)),
                Untimed(Serial(Serial(done.seen, mine), done)) }]_vars

\* C6: a committed create leaves the new booking Booked at the stage of
\* minimal order with no history row, and a booking's first history row
\* appears only on the commit of an advanceStage on that booking.
C6_CreateIsBookedAtFirstStage ==
  [][/\ \A c \in Customers :
          Created(c) =>
            /\ loc[c].bid \in DOMAIN db'.bookings \ DOMAIN db.bookings
            /\ db'.bookings[loc[c].bid].status = "Booked"
            /\ db'.bookings[loc[c].bid].current_stage_id \in DOMAIN stages
            /\ HasMinOrder(db'.bookings[loc[c].bid].current_stage_id)
            /\ HistoryOf(db', loc[c].bid) = << >>
     /\ \A b \in DOMAIN db'.bookings :
          (HistoryOf(db', b) # << >> /\ (b \notin DOMAIN db.bookings \/ HistoryOf(db, b) = << >>)) =>
            \E s \in StaffUsers : Advanced(s) /\ loc[s].bid = b]_vars

\* a second booking, created after the first was advanced, is Booked at the
\* stage of minimal order and has no history
C6_Witness ==
  \E b, b2 \in DOMAIN db.bookings :
    /\ HistoryOf(db, b) # << >>
    /\ b2 > b
    /\ HistoryOf(db, b2) = << >>
    /\ db.bookings[b2].status = "Booked"
    /\ HasMinOrder(db.bookings[b2].current_stage_id)

\* C7: a payment lookup right after a committed create returns one row for
\* the new booking: amount the chosen package's price, method Cash, status
\* Unpaid, paid_at null.
C7_CreateThenPaymentLookup ==
  [][\A c \in Customers :
       Created(c) =>
         PaymentLookup(db', loc[c].bid) =
           << [booking_id |-> loc[c].bid,
               amount |-> packages[db'.bookings[loc[c].bid].package_id].price,
               method |-> "Cash", payment_status |-> "Unpaid", paid_at |-> NULL] >>]_vars

\* two bookings of different packages, each with its own unpaid payment
C7_Witness ==
  \E b, b2 \in DOMAIN db.bookings :
    /\ db.bookings[b].package_id # db.bookings[b2].package_id
    /\ PaymentLookup(db, b) # << >>
    /\ PaymentLookup(db, b2) # << >>
    /\ PaymentLookup(db, b)[1].amount = packages[db.bookings[b].package_id].price
    /\ PaymentLookup(db, b2)[1].amount = packages[db.bookings[b2].package_id].price
    /\ PaymentLookup(db, b2)[1].payment_status = "Unpaid"

\* the first advance of a freshly created booking, to Drying with
\* closePrevious=true, in the seeded catalog
C8_Scenario(s) ==
  /\ Advanced(s)
  /\ stages = SeedStages
  /\ db.bookings[loc[s].bid].status = "Booked"
  /\ db.bookings[loc[s].bid].current_stage_id = Washing
  /\ HistoryOf(db, loc[s].bid) = << >>
  /\ loc[s].new_stage_id = Drying
  /\ loc[s].end_prev
RowsAt(h, stage_id, open) ==
  {i \in DOMAIN h : h[i].stage_id = stage_id /\ ((h[i].end_time = NULL) <=> open)}

\* C8 as claimed: after create and advanceStage(Drying, closePrevious=true)
\* the booking is InProgress at Drying, exactly one history row for Washing
\* has a non-null end_time and there is one open row for Drying.
C8_ScenarioClosesWashingRow ==
  [][\A s \in StaffUsers :
       C8_Scenario(s) =>
         LET h == HistoryOf(db', loc[s].bid)
         IN /\ db'.bookings[loc[s].bid].status = "InProgress"
            /\ db'.bookings[loc[s].bid].current_stage_id = Drying
            /\ Cardinality(RowsAt(h, Washing, FALSE)) = 1
            /\ Cardinality(RowsAt(h, Drying, TRUE)) = 1]_vars

\* C8 as amended: after create and advanceStage(Drying, closePrevious=true)
\* the booking is InProgress at Drying and its history is one open row for
\* Drying; there is no history row for Washing, since create inserts none.
C8_ScenarioOpensDryingRow ==
  [][\A s \in StaffUsers :
       C8_Scenario(s) =>
         LET h == HistoryOf(db', loc[s].bid)
         IN /\ db'.bookings[loc[s].bid].status = "InProgress"
            /\ db'.bookings[loc[s].bid].current_stage_id = Drying
            /\ Len(h) = 1
            /\ h[1].stage_id = Drying
            /\ h[1].end_time = NULL
            /\ h[1].start_time # NULL
            /\ h[1].updated_by_staff_id = s]_vars

\* the scenario's end state
C8_Witness ==
  /\ stages = SeedStages
  /\ done # NoCall
  /\ done.end_prev
  /\ done.new_stage_id = Drying
  /\ done.seen.history = << >>
  /\ Len(HistoryOf(db, done.bid)) = 1
  /\ HistoryOf(db, done.bid)[1].stage_id = Drying
  /\ HistoryOf(db, done.bid)[1].end_time = NULL
  /\ HistoryOf(db, done.bid)[1].updated_by_staff_id = done.by
  /\ db.bookings[done.bid].status = "InProgress"

\* C9: no step of advanceStage changes a payment row, completion included.
C9_AdvanceKeepsPayments ==
  [][\A s \in StaffUsers :
       (pc[s] \in {"viewed", "updated"} /\ pc'[s] # pc[s]) =>
         /\ db'.payments = db.payments
         /\ (lock' = s => tx'.payments = db.payments)]_vars

\* a Completed booking whose payment is still Unpaid
C9_Witness ==
  \E b \in DOMAIN db.bookings :
    /\ db.bookings[b].status = "Completed"
    /\ PaymentLookup(db, b) # << >>
    /\ PaymentLookup(db, b)[1].payment_status = "Unpaid"
    /\ PaymentLookup(db, b)[1].paid_at = NULL

PaidAtIffPaid(d) ==
  \A i \in DOMAIN d.payments :
    d.payments[i].paid_at # NULL <=> d.payments[i].payment_status = "Paid"

\* C10: a payment's paid_at is non-null exactly when its status is Paid, in
\* every state; a payment that becomes Paid gets a paid_at and a payment
\* that leaves Paid loses it.
C10_PaidAtIffPaid ==
  /\ [](PaidAtIffPaid(db))
  /\ [][\A i \in DOMAIN db.payments :
          /\ (db.payments[i].payment_status # "Paid" /\ db'.payments[i].payment_status = "Paid")
               => db'.payments[i].paid_at # NULL
          /\ (db.payments[i].payment_status = "Paid" /\ db'.payments[i].payment_status # "Paid")
               => db'.payments[i].paid_at = NULL]_vars

\* one payment is Paid with a paid_at, another was updated to Refunded and
\* has none
C10_Witness ==
  \E i, j \in DOMAIN db.payments :
    /\ db.payments[i].payment_status = "Paid"
    /\ db.payments[i].paid_at # NULL
    /\ db.payments[j].payment_status = "Refunded"
    /\ db.payments[j].paid_at = NULL

\* the staff members a "Save Assignment" call chose
Chosen(call) == {call.chosen[i] : i \in DOMAIN call.chosen}

\* C11: a "Save Assignment" call leaves exactly one assignment row for the
\* booking and each staff member it chose; a staff member who was assigned
\* already keeps the row unchanged, and a call whose staff members were all
\* assigned already leaves the whole registry unchanged.
C11_AssignIsIdempotent ==
  [][assigned' # assigned =>
       /\ \A sid \in Chosen(assigned') :
            /\ Cardinality(AssignmentRows(db', assigned'.bid, sid)) = 1
            /\ \A i \in AssignmentRows(db, assigned'.bid, sid) :
                 db'.assignments[i] = db.assignments[i]
       /\ (\A sid \in Chosen(assigned') : AssignmentRows(db, assigned'.bid, sid) # {})
            => db'.assignments = db.assignments]_vars

\* the last call chose a staff member already assigned to the booking, next
\* to one who was not, and the registry holds one row for each
C11_Witness ==
  /\ assigned # NoCall
  /\ \E sid, other \in Chosen(assigned) :
       /\ \E i \in DOMAIN assigned.before :
            /\ assigned.before[i].booking_id = assigned.bid
            /\ assigned.before[i].staff_id = sid
       /\ \A i \in DOMAIN assigned.before :
            ~(assigned.before[i].booking_id = assigned.bid /\ assigned.before[i].staff_id = other)
       /\ Cardinality(AssignmentRows(db, assigned.bid, sid)) = 1
       /\ Cardinality(AssignmentRows(db, assigned.bid, other)) = 1

ValidStages(d) ==
  \A b \in DOMAIN d.bookings :
    /\ d.bookings[b].current_stage_id # NULL
    /\ d.bookings[b].current_stage_id \in DOMAIN stages

\* C12: in every state, committed or inside a session's open transaction,
\* every booking's current stage is non-null and is a stage of the catalog.
C12_CurrentStageIsValid == ValidStages(db) /\ ValidStages(tx)

\* a booking that was advanced away from the first stage, a younger booking
\* still at the first stage
C12_Witness ==
  \E b, b2 \in DOMAIN db.bookings :
    /\ b < b2
    /\ HistoryOf(db, b) # << >>
    /\ db.bookings[b].current_stage_id \in DOMAIN stages \ {FirstStage(stages)}
    /\ db.bookings[b2].current_stage_id = FirstStage(stages)

\* C14: a Completed booking keeps its status and its current stage when a
\* stage of higher order is added, and in every later step while its stage is
\* no longer the one of maximum order.
C14_AddedStageKeepsCompleted ==
  [][\A b \in DOMAIN db.bookings :
       (/\ db.bookings[b].status = "Completed"
        /\ (stages' # stages \/ ~HasMaxOrder(db.bookings[b].current_stage_id))) =>
         /\ db'.bookings[b].status = "Completed"
         /\ db'.bookings[b].current_stage_id = db.bookings[b].current_stage_id]_vars

\* a Completed booking whose stage is no longer the stage of maximum order
C14_Witness ==
  \E b \in DOMAIN db.bookings :
    /\ db.bookings[b].status = "Completed"
    /\ ~HasMaxOrder(db.bookings[b].current_stage_id)
    /\ stages \notin Catalogs
    /\ b \notin ActiveBookings(db)

\* C16: in every committed state, the state the sessions read, every booking
\* has exactly one payment row.
C16_OnePaymentPerBooking ==
  \A b \in DOMAIN db.bookings : Cardinality(PaymentRows(db, b)) = 1

\* a create has inserted its booking and not yet its payment, while the
\* sessions read an older booking whose payment a staff session has updated
C16_Witness ==
  \E c \in Customers :
    /\ pc[c] = "booked"
    /\ lock = c
    /\ PaymentRows(tx, loc[c].bid) = {}
    /\ loc[c].bid \notin DOMAIN db.bookings
    /\ \E b \in DOMAIN db.bookings :
         /\ PaymentRows(db, b) # {}
         /\ PaymentLookup(db, b)[1].payment_status # "Unpaid"

\* C17: in every state every booking's vehicle belongs to the booking's
\* customer and its package is an active one.
C17_OwnVehicleActivePackage ==
  \A b \in DOMAIN db.bookings :
    /\ db.bookings[b].vehicle_id \in DOMAIN db.vehicles
    /\ db.vehicles[db.bookings[b].vehicle_id].customer_id = db.bookings[b].customer_id
    /\ db.bookings[b].package_id \in DOMAIN packages
    /\ packages[db.bookings[b].package_id].is_active = 1

\* a booking was created while another customer's vehicle and an inactive
\* package existed
C17_Witness ==
  \E b \in DOMAIN db.bookings :
    /\ \E v \in DOMAIN db.vehicles :
         /\ v < db.bookings[b].vehicle_id
         /\ db.vehicles[v].customer_id # db.bookings[b].customer_id
    /\ \E p \in DOMAIN packages : packages[p].is_active = 0

\* the history entries a step changes
ChangedRows == {i \in DOMAIN db.history : db'.history[i] # db.history[i]}
\* the open entries of booking bid for the stage stage_id
OpenRowsAt(d, bid, stage_id) ==
  {i \in OpenRows(d, bid) : d.history[i].stage_id = stage_id}

\* C18: an advanceStage with closePrevious=true sets end_time on the
\* highest-identifier open entry for (booking, current stage) and on no other
\* entry, changes nothing when there is no such entry, and with
\* closePrevious=false changes no existing entry.
C18_ClosesMostRecentOnly ==
  [][\A s \in StaffUsers :
       Advanced(s) =>
         LET open == OpenRowsAt(db, loc[s].bid, loc[s].current_stage_id)
         IN /\ ~loc[s].end_prev => ChangedRows = {}
            /\ (loc[s].end_prev /\ open = {}) => ChangedRows = {}
            /\ (loc[s].end_prev /\ open # {}) =>
                 /\ ChangedRows = {CHOOSE i \in open : \A j \in open : j <= i}
                 /\ \A i \in ChangedRows :
                      db'.history[i] = [db.history[i] EXCEPT !.end_time = db'.history[i].end_time]
                 /\ \A i \in ChangedRows : db'.history[i].end_time # NULL]_vars

\* C19: no step removes a history entry or changes an entry's booking, stage,
\* start time or staff id, and an entry whose end_time is non-null keeps that
\* end_time in every later step.
C19_HistoryIsAppendOnly ==
  [][/\ Len(db'.history) >= Len(db.history)
     /\ \A i \in DOMAIN db.history :
          /\ db'.history[i].booking_id = db.history[i].booking_id
          /\ db'.history[i].stage_id = db.history[i].stage_id
          /\ db'.history[i].start_time = db.history[i].start_time
          /\ db'.history[i].updated_by_staff_id = db.history[i].updated_by_staff_id
          /\ db.history[i].end_time # NULL =>
               db'.history[i].end_time = db.history[i].end_time]_vars

\* an entry closed by one advance kept its end_time when a later advance
\* closed a younger entry of the same booking and stage
C19_Witness ==
  \E b \in DOMAIN db.bookings :
    LET h == HistoryOf(db, b)
    IN /\ Len(h) >= 3
       /\ h[1].stage_id = h[2].stage_id
       /\ h[1].end_time # NULL
       /\ h[2].end_time # NULL
       /\ h[1].end_time < h[2].end_time

Statuses(d) == {d.bookings[b].status : b \in DOMAIN d.bookings}

\* C20: in every state, committed or inside a session's open transaction,
\* every booking's status is Booked, InProgress or Completed: never Cancelled.
C20_NeverCancelled ==
  Statuses(db) \cup Statuses(tx) \subseteq {"Booked", "InProgress", "Completed"}

\* a booking was advanced to Completed while another is still Booked
C20_Witness ==
  /\ "Booked" \in Statuses(db)
  /\ "Completed" \in Statuses(db)

\* C21: no step removes a payment row or changes the amount or the booking of
\* an existing one, whichever request it serves (Update Payment, Update
\* Stage, Save Assignment, Create Package, another Create Booking); and an
\* Update Payment for booking b changes no payment row but that of b.
C21_AmountIsFixed ==
  [][/\ Len(db'.payments) >= Len(db.payments)
     /\ \A i \in DOMAIN db.payments :
          /\ db'.payments[i].amount = db.payments[i].amount
          /\ db'.payments[i].booking_id = db.payments[i].booking_id
     /\ \A s \in StaffUsers : \A b \in DOMAIN db.bookings :
          \A m \in Methods : \A st \in PaymentStatuses :
            UpdatePayment(s, b, m, st) =>
              \A i \in DOMAIN db.payments :
                db.payments[i].booking_id # b => db'.payments[i] = db.payments[i]]_vars

\* the payment of one booking was updated and kept its amount, the payment of
\* another booking, of another package, is as it was created
C21_Witness ==
  \E i, j \in DOMAIN db.payments :
    /\ db.payments[i].payment_status = "Paid"
    /\ db.payments[i].method = "Card"
    /\ db.payments[i].amount = packages[db.bookings[db.payments[i].booking_id].package_id].price
    /\ db.payments[j] = InitialPayment(db.payments[j].booking_id,
                                       packages[db.bookings[db.payments[j].booking_id].package_id].price)
    /\ db.payments[i].amount # db.payments[j].amount

BookedIffNoHistory(d) ==
  \A b \in DOMAIN d.bookings :
    d.bookings[b].status = "Booked" <=> HistoryOf(d, b) = << >>

\* C22: in every state a booking is Booked exactly when it has no history
\* entry; the commit of its first advanceStage takes it out of Booked and
\* inserts its first entry, and a booking that has left Booked never returns
\* to it.
C22_BookedIffNoHistory ==
  /\ [](BookedIffNoHistory(db))
  /\ [][/\ \A b \in DOMAIN db.bookings :
             db.bookings[b].status # "Booked" => db'.bookings[b].status # "Booked"
        /\ \A s \in StaffUsers :
             (Advanced(s) /\ db.bookings[loc[s].bid].status = "Booked") =>
               /\ db'.bookings[loc[s].bid].status # "Booked"
               /\ Len(HistoryOf(db', loc[s].bid)) = 1]_vars

\* a booking that was advanced to the stage it was created at and is
\* InProgress, a younger booking that is Booked and has no history
C22_Witness ==
  \E b, b2 \in DOMAIN db.bookings :
    /\ b < b2
    /\ Len(HistoryOf(db, b)) = 1
    /\ db.bookings[b].current_stage_id = FirstStage(stages)
    /\ db.bookings[b].status = "InProgress"
    /\ db.bookings[b2].status = "Booked"
    /\ HistoryOf(db, b2) = << >>

====
